---------------------------- MODULE Spec2Model ----------------------------
(***************************************************************************)
(* A model of the slug utility of tartanllama.xyz (src/utils/slugify.ts).  *)
(*                                                                         *)
(*   export const slugifyStr = (str: string) => {                          *)
(*     str = str.replace("C++", "cpp");                                    *)
(*     return kebabcase(str);                                              *)
(*   };                                                                    *)
(*   export const slugifyAll = (arr: string[]) =>                          *)
(*     arr.map(str => slugifyStr(str));                                    *)
(*                                                                         *)
(* A JavaScript string is a sequence of characters; a character is a       *)
(* one-character TLA+ string ("C", "+", " "), and a character outside      *)
(* ASCII is written by its code point ("U+00C9").  kebabcase is the        *)
(* default export of the npm package lodash.kebabcase (4.1.1); its regular *)
(* expressions are modelled alternative by alternative.                    *)
(***************************************************************************)
EXTENDS Integers, Sequences, FiniteSets, TLC

VARIABLES
    op,     \* "callStr", "callAll": a call is pending; "slugifyStr",
            \* "slugifyAgain", "slugifyAll": the call that returned last
    arg,    \* the argument of the last call: a string, or an array of strings
    ret,    \* the value the last call returned
    heap,   \* the arrays that exist, by reference: heap[r] is the array r
    log,    \* the slugifyStr calls so far: <<argument, slug>>, oldest first
    lastIndex,  \* reHasUnicodeWord.lastIndex, the state of the one regular
                \* expression that kebabcase uses through RegExp.prototype.test
    asked,  \* the path the visitor asked for first
    req,    \* the path the routing layer is asked for
    hops,   \* the number of redirects followed for this request
    loose,  \* the routing layer ignores a trailing slash and ".html"
    post,   \* the post whose front-matter the build read last
    mode,   \* the display mode of the page: "light" or "dark"
    props,  \* Astro.props of the themed image component
    images  \* the props of the two <Image> elements the component rendered

vars == <<op, arg, ret, heap, log, lastIndex, asked, req, hops, loose, post,
          mode, props, images>>

\* the state of a run of calls on arrays held by reference
callVars == <<heap, log, lastIndex>>

\* the state of the routing layer and of the build that reads the posts
siteVars == <<asked, req, hops, loose, post>>

\* the state of a page with the themed image component
imageVars == <<mode, props, images>>

\* no request, no post read
SiteIdle == asked = <<>> /\ req = <<>> /\ hops = 0 /\ loose = FALSE
            /\ post = <<>>

\* no component rendered
ImageIdle == mode = "light" /\ props = <<>> /\ images = <<>>

\* no call made
CallsIdle == op = "start" /\ arg = <<>> /\ ret = <<>> /\ heap = <<>>
             /\ log = <<>> /\ lastIndex = 0

---------------------------------------------------------------------------
(* Bounds of the model *)

\* longest string drawn exhaustively over Alphabet
MaxLen == 5

\* longest array handed to slugifyAll
MaxArr == 2

\* most arrays alive in a run of calls
MaxHeap == 3

\* most slugifyStr calls in a run of calls
MaxLog == 4

---------------------------------------------------------------------------
(* Characters *)

UpperSeq == << "A","B","C","D","E","F","G","H","I","J","K","L","M",
               "N","O","P","Q","R","S","T","U","V","W","X","Y","Z" >>

LowerSeq == << "a","b","c","d","e","f","g","h","i","j","k","l","m",
               "n","o","p","q","r","s","t","u","v","w","x","y","z" >>

Range(f) == { f[i] : i \in DOMAIN f }

AsciiUpper == Range(UpperSeq)

AsciiLower == Range(LowerSeq)

AsciiDigit == { "0","1","2","3","4","5","6","7","8","9" }

\* ASCII characters that are neither letters nor digits (a sample of
\* \x00-\x2f, \x3a-\x40, \x5b-\x60, \x7b-\x7f)
AsciiOther == { " ", "+", "-", "_", "(", ")", ".", ",", "/", ":", "!", "'" }

\* Characters outside ASCII: E acute (upper, lower), right single quotation
\* mark, the CJK ideograph U+65E5, the ideographic comma U+3001
LatinUpper == { "U+00C9" }

LatinLower == { "U+00E9" }

NonAscii == LatinUpper \cup LatinLower \cup { "U+2019", "U+65E5", "U+3001" }

Char == AsciiUpper \cup AsciiLower \cup AsciiDigit \cup AsciiOther \cup NonAscii

IsString(v) == v \in Seq(Char)

---------------------------------------------------------------------------
(* String.prototype primitives *)

\* the length of the longest run of characters of the class cls that starts
\* at position i of s (0 when s[i] is not in cls or i is past the end)
RunLen(s, i, cls) ==
    Cardinality({ k \in 1..(Len(s) - i + 1) :
                     \A j \in i..(i + k - 1) : s[j] \in cls })

\* the k-th smallest element of the set S of numbers
NthOf(S, k) == CHOOSE x \in S : Cardinality({ y \in S : y <= x }) = k

\* s.indexOf(pat): the first position where pat occurs in s, 0 when none
\* (positions are 1-based; JavaScript's -1 is 0 here)
indexOf(s, pat) ==
    LET hits == { i \in 1..(Len(s) - Len(pat) + 1) :
                     SubSeq(s, i, i + Len(pat) - 1) = pat }
    IN  IF hits = {} THEN 0
        ELSE CHOOSE i \in hits : \A j \in hits : i <= j

\* s.replace(pat, rep) with the pattern matched without regard to case
\* (a regular expression with the i flag)
replace_ignoreCase(s, pat, rep) ==
    LET low(x) == [ k \in DOMAIN x |->
                      IF x[k] \in Range(UpperSeq)
                      THEN LowerSeq[CHOOSE n \in DOMAIN UpperSeq : UpperSeq[n] = x[k]]
                      ELSE x[k] ]
        i == indexOf(low(s), low(pat))
    IN  IF i = 0 THEN s
        ELSE SubSeq(s, 1, i - 1) \o rep \o SubSeq(s, i + Len(pat), Len(s))

\* s.replaceAll(pat, rep): every occurrence, left to right
RECURSIVE replace_all(_, _, _)
replace_all(s, pat, rep) ==
    LET i == indexOf(s, pat)
    IN  IF i = 0 THEN s
        ELSE SubSeq(s, 1, i - 1) \o rep
               \o replace_all(SubSeq(s, i + Len(pat), Len(s)), pat, rep)

\* s.replace(pat, rep) with a string pattern: the first occurrence only,
\* matched character by character; rep holds no "$" pattern
replace(s, pat, rep) ==
    LET i == indexOf(s, pat)
    IN  IF i = 0 THEN s
        ELSE SubSeq(s, 1, i - 1) \o rep \o SubSeq(s, i + Len(pat), Len(s))

\* c.toLowerCase() for one character
lowerChar(c) ==
    IF c \in AsciiUpper
    THEN LowerSeq[CHOOSE i \in DOMAIN UpperSeq : UpperSeq[i] = c]
    ELSE IF c = "U+00C9" THEN "U+00E9" ELSE c

\* word.toLowerCase() left out
toLowerCase_identity(w) == w

\* word.toLowerCase()
toLowerCase(w) == [ i \in DOMAIN w |-> lowerChar(w[i]) ]

---------------------------------------------------------------------------
(* lodash.kebabcase: character classes *)

\* rsUpper = [A-Z\xc0-\xd6\xd8-\xde]
rsUpper == AsciiUpper \cup LatinUpper

\* rsLower = [a-z\xdf-\xf6\xf8-\xff]
rsLower == AsciiLower \cup LatinLower

\* rsDigits = \d+: the class \d
rsDigit == AsciiDigit

\* rsBreak with "+" missing from its ranges
rsBreak_noPlus == (AsciiOther \ { "+" }) \cup { "U+2019" }

\* rsBreak = [ math operators, \x00-\x2f \x3a-\x40 \x5b-\x60 \x7b-\xbf,
\*             general punctuation U+2000-U+206F, spaces ]
rsBreak == AsciiOther \cup { "U+2019" }

\* rsMisc = [^ astral, break, digits, dingbats, lower, upper ]
rsMisc == Char \ (rsBreak \cup rsDigit \cup rsLower \cup rsUpper)

\* rsLowerMisc = (?: rsLower | rsMisc )
rsLowerMisc == rsLower \cup rsMisc

\* rsUpperMisc = (?: rsUpper | rsMisc )
rsUpperMisc == rsUpper \cup rsMisc

\* rsApos = ['U+2019]
rsApos == { "'", "U+2019" }

\* the class of reAsciiWord = /[^\x00-\x2f\x3a-\x40\x5b-\x60\x7b-\x7f]+/g
AsciiWordChar == Char \ AsciiOther

---------------------------------------------------------------------------
(* lodash.kebabcase: deburr, words, the compounder *)

\* deburrLetter: the Latin-1 letters are mapped to basic Latin letters
deburrLetter(c) ==
    IF c = "U+00C9" THEN "E" ELSE IF c = "U+00E9" THEN "e" ELSE c

\* deburr(string) = string.replace(reLatin, deburrLetter).replace(reComboMark, '')
deburr(s) == [ i \in DOMAIN s |-> deburrLetter(s[i]) ]

\* string.replace(reApos, ''): every apostrophe is deleted
RECURSIVE removeApos(_)
removeApos(s) ==
    IF s = <<>> THEN <<>>
    ELSE (IF Head(s) \in rsApos THEN <<>> ELSE <<Head(s)>>) \o removeApos(Tail(s))

\* reHasUnicodeWord without its two digit/letter alternatives
hasUnicodeWord_noDigit(s) ==
    \/ \E i \in 1..(Len(s) - 1) : s[i] \in AsciiLower /\ s[i+1] \in AsciiUpper
    \/ \E i \in 1..(Len(s) - 2) :
          s[i] \in AsciiUpper /\ s[i+1] \in AsciiUpper /\ s[i+2] \in AsciiLower
    \/ \E i \in 1..Len(s) :
          s[i] \notin AsciiUpper \cup AsciiLower \cup AsciiDigit \cup { " " }

\* reHasUnicodeWord =
\*   /[a-z][A-Z]|[A-Z]{2,}[a-z]|[0-9][a-zA-Z]|[a-zA-Z][0-9]|[^a-zA-Z0-9 ]/
hasUnicodeWord(s) ==
    \/ \E i \in 1..(Len(s) - 1) :
          \/ s[i] \in AsciiLower /\ s[i+1] \in AsciiUpper
          \/ s[i] \in AsciiDigit /\ s[i+1] \in AsciiUpper \cup AsciiLower
          \/ s[i] \in AsciiUpper \cup AsciiLower /\ s[i+1] \in AsciiDigit
    \/ \E i \in 1..(Len(s) - 2) :
          s[i] \in AsciiUpper /\ s[i+1] \in AsciiUpper /\ s[i+2] \in AsciiLower
    \/ \E i \in 1..Len(s) :
          s[i] \notin AsciiUpper \cup AsciiLower \cup AsciiDigit \cup { " " }

\* the lookahead (?= rsBreak | rsUpper | $ ) at position j
AheadLower(s, j) == j > Len(s) \/ s[j] \in rsBreak \/ s[j] \in rsUpper

\* the lookahead (?= rsBreak | rsUpper rsLowerMisc | $ ) at position j
AheadUpper(s, j) ==
    \/ j > Len(s)
    \/ s[j] \in rsBreak
    \/ s[j] \in rsUpper /\ j + 1 <= Len(s) /\ s[j+1] \in rsLowerMisc

\* rsUpper? rsLower+ (?= rsBreak | rsUpper | $ ): the length matched at i, or 0.
\* A shorter run of lower-case letters is followed by a lower-case letter, so
\* backtracking never helps.  (The optional contraction needs an apostrophe,
\* and words() is called after the apostrophes are removed.)
Alt1(s, i) ==
    LET u == IF s[i] \in rsUpper THEN 1 ELSE 0
        n == RunLen(s, i + u, rsLower)
    IN  IF n > 0 /\ AheadLower(s, i + u + n) THEN u + n ELSE 0

\* rsUpperMisc+ (?= rsBreak | rsUpper rsLowerMisc | $ ): the longest prefix
\* of the run after which the lookahead holds
Alt2(s, i) ==
    LET m  == RunLen(s, i, rsUpperMisc)
        ok == { k \in 1..m : AheadUpper(s, i + k) }
    IN  IF ok = {} THEN 0 ELSE CHOOSE k \in ok : \A l \in ok : l <= k

\* rsUpper? rsLowerMisc+
Alt3(s, i) ==
    LET u == IF s[i] \in rsUpper THEN 1 ELSE 0
        n == RunLen(s, i + u, rsLowerMisc)
    IN  IF n > 0 THEN u + n ELSE 0

\* rsUpper+
Alt4(s, i) == RunLen(s, i, rsUpper)

\* reUnicodeWord without its rsDigits alternative
Alt5_missing(s, i) == 0

\* rsDigits = \d+
Alt5(s, i) == RunLen(s, i, rsDigit)

\* reUnicodeWord at position i: the first alternative that matches decides
\* (rsEmoji, the last alternative, needs astral characters)
UnicodeWordAt(s, i) ==
    IF Alt1(s, i) > 0 THEN Alt1(s, i)
    ELSE IF Alt2(s, i) > 0 THEN Alt2(s, i)
    ELSE IF Alt3(s, i) > 0 THEN Alt3(s, i)
    ELSE IF Alt4(s, i) > 0 THEN Alt4(s, i)
    ELSE Alt5(s, i)

\* string.match(reAsciiWord): the matches from position i on, left to
\* right, without overlap.  reAsciiWord matches a maximal run of characters
\* outside \x00-\x2f \x3a-\x40 \x5b-\x60 \x7b-\x7f.
RECURSIVE matchAscii(_, _)
matchAscii(s, i) ==
    IF i > Len(s) THEN <<>>
    ELSE LET n == RunLen(s, i, AsciiWordChar)
         IN  IF n = 0 THEN matchAscii(s, i + 1)
             ELSE <<SubSeq(s, i, i + n - 1)>> \o matchAscii(s, i + n)

\* string.match(reUnicodeWord): the matches from position i on
RECURSIVE matchUnicode(_, _)
matchUnicode(s, i) ==
    IF i > Len(s) THEN <<>>
    ELSE LET n == UnicodeWordAt(s, i)
         IN  IF n = 0 THEN matchUnicode(s, i + 1)
             ELSE <<SubSeq(s, i, i + n - 1)>> \o matchUnicode(s, i + n)

\* asciiWords(string) = string.match(reAsciiWord) || []
asciiWords(s) == matchAscii(s, 1)

\* unicodeWords(string) = string.match(reUnicodeWord) || []
unicodeWords(s) == matchUnicode(s, 1)

\* words(string) = hasUnicodeWord(string) ? unicodeWords(string)
\*                                        : asciiWords(string)
words(s) == IF hasUnicodeWord(s) THEN unicodeWords(s) ELSE asciiWords(s)

\* the callback of kebabCase without the test of index: a hyphen before
\* every word, the first included
kebabCallback_hyphenAlways(result, word, index) ==
    result \o <<"-">> \o toLowerCase(word)

\* the callback of kebabCase:
\*   result + (index ? '-' : '') + word.toLowerCase()
\* (index is the 0-based index of the word)
kebabCallback(result, word, index) ==
    result \o (IF index # 0 THEN <<"-">> ELSE <<>>) \o toLowerCase(word)

\* arrayReduce(array, kebabCallback, accumulator) over array[from..]
RECURSIVE arrayReduce(_, _, _)
arrayReduce(array, accumulator, from) ==
    IF from > Len(array) THEN accumulator
    ELSE arrayReduce(array,
                     kebabCallback(accumulator, array[from], from - 1),
                     from + 1)

\* undefined, as a value that is not a string
Undefined == << "undefined" >>

\* kebabCase with arrayReduce called without its initial accumulator: the
\* first word is the accumulator, and no word at all gives undefined
kebabcase_noAccumulator(s) ==
    LET w == words(removeApos(deburr(s)))
    IN  IF w = <<>> THEN Undefined ELSE arrayReduce(w, w[1], 2)

\* kebabCase = createCompounder(callback):
\*   arrayReduce(words(deburr(string).replace(reApos, '')), callback, '')
kebabcase(s) == arrayReduce(words(removeApos(deburr(s))), <<>>, 1)

---------------------------------------------------------------------------
(* src/utils/slugify.ts *)

\* a TypeError: what str.replace(...) throws when str is not a string
TypeError == << "TypeError" >>

\* a SyntaxError: what building the regular expression /C++/ throws
SyntaxError == << "SyntaxError" >>

\* line 4, str = str.replace("C++", "cpp"): the value of str after it
strReplaced(s) == replace(s, <<"C", "+", "+">>, <<"c", "p", "p">>)

\* slugifyStr with the rewrite left out
slugifyStr_noRewrite(s) ==
    IF ~ IsString(s) THEN TypeError ELSE kebabcase(s)

\* slugifyStr with the pattern written as the regular expression /C++/
slugifyStr_regExp(s) == SyntaxError

\* slugifyStr: replace the first literal "C++" by "cpp", then kebab-case
slugifyStr(s) ==
    IF ~ IsString(s) THEN TypeError
    ELSE kebabcase(strReplaced(s))

\* slugifyAll that returns each slug once (a Set in between)
slugifyAll_unique(a) ==
    LET keep == { i \in DOMAIN a :
                    \A j \in 1..(i - 1) : slugifyStr(a[j]) # slugifyStr(a[i]) }
        nth(k) == CHOOSE i \in keep : Cardinality({ j \in keep : j <= i }) = k
    IN  [ k \in 1..Cardinality(keep) |-> slugifyStr(a[nth(k)]) ]

\* slugifyAll that keeps the slugs of one array apart: a slug that an earlier
\* element of the array has already is given the suffix "-1"
slugifyAll_numbered(a) ==
    [ i \in DOMAIN a |->
        IF \E j \in 1..(i - 1) : slugifyStr(a[j]) = slugifyStr(a[i])
        THEN slugifyStr(a[i]) \o << "-", "1" >>
        ELSE slugifyStr(a[i]) ]

\* slugifyAll: arr.map(str => slugifyStr(str))
slugifyAll(a) == [ i \in DOMAIN a |-> slugifyStr(a[i]) ]

---------------------------------------------------------------------------
(* The inputs of the model *)

\* the characters of the strings drawn exhaustively
Alphabet == { "C", "c", "+", "-", "2", " ", "'" }

\* every string over Alphabet of length at most MaxLen
Strings == UNION { [1..k -> Alphabet] : k \in 0..MaxLen }

\* "C++"
CppTag == << "C", "+", "+" >>

\* "Debuggers"
DebuggersTag == << "D", "e", "b", "u", "g", "g", "e", "r", "s" >>

\* "Deducing This (C++23)"
DeducingThis == << "D", "e", "d", "u", "c", "i", "n", "g", " ", "T", "h", "i", "s", " ", "(", "C", "+", "+", "2", "3", ")" >>

\* "C++17 attributes": a title that starts with the token
Cpp17Attributes == << "C", "+", "+", "1", "7", " ", "a", "t", "t", "r", "i", "b", "u", "t", "e", "s" >>

\* "Trip Report"
TripReport == << "T", "r", "i", "p", " ", "R", "e", "p", "o", "r", "t" >>

\* "ACCUConf": consecutive capitals before a capitalised word
ACCUConf == << "A", "C", "C", "U", "C", "o", "n", "f" >>

\* "don't": an apostrophe inside a word
Dont == << "d", "o", "n", "'", "t" >>

\* "don'tStop 2go": an apostrophe, a case change, a space and a digit
DontStop == << "d", "o", "n", "'", "t", "S", "t", "o", "p", " ", "2", "g", "o" >>

\* "C++ and C++": the token twice
CppTwice == << "C", "+", "+", " ", "a", "n", "d", " ", "C", "+", "+" >>

\* "U+00C9 t U+00E9": E acute, t, e acute (a word with Latin-1 letters)
Ete == << "U+00C9", "t", "U+00E9" >>

\* "C++C++": the token twice, nothing between
CppCpp == << "C", "+", "+", "C", "+", "+" >>

\* "U+3001": an ideographic comma alone (punctuation outside the break ranges)
Touten == << "U+3001" >>

\* "-C++-": the token between hyphens
HyphenCpp == << "-", "C", "+", "+", "-" >>

\* "C++17", "C++20", "C++23"
Cpp17Tag == << "C", "+", "+", "1", "7" >>

Cpp20Tag == << "C", "+", "+", "2", "0" >>

Cpp23Tag == << "C", "+", "+", "2", "3" >>

\* "Meeting C++"
MeetingCpp == << "M", "e", "e", "t", "i", "n", "g", " ", "C", "+", "+" >>

\* "Metaprogramming"
Metaprogramming == << "M", "e", "t", "a", "p", "r", "o", "g", "r", "a", "m", "m", "i", "n", "g" >>

\* "Writing a Linux Debugger"
WritingALinuxDebugger == << "W", "r", "i", "t", "i", "n", "g", " ", "a", " ", "L", "i", "n", "u", "x", " ", "D", "e", "b", "u", "g", "g", "e", "r" >>

\* "WebAssembly"
WebAssembly == << "W", "e", "b", "A", "s", "s", "e", "m", "b", "l", "y" >>

\* the tags of the posts' front-matter, each once
SiteTags == << CppTag, Cpp17Tag, Cpp20Tag, Cpp23Tag, MeetingCpp, TripReport,
               ACCUConf, Metaprogramming, DebuggersTag, WritingALinuxDebugger,
               WebAssembly >>

\* "U+65E5 c": a CJK ideograph next to a letter
Nichi == << "U+65E5", "c" >>

\* titles and tags of the posts, and strings outside Alphabet
Examples == { CppTag, DebuggersTag, DeducingThis, Cpp17Attributes,
              TripReport, ACCUConf, Dont, DontStop, CppTwice, CppCpp, HyphenCpp,
              Ete, Nichi, Touten }

\* the strings slugifyStr is called with
Inputs == Strings \cup Examples

\* the elements of the arrays slugifyAll is called with
ArrElems == { CppTag, DebuggersTag, <<"c">>, <<>>, TripReport }

\* every array over ArrElems of length at most MaxArr, and the tags of the site
Arrays == UNION { [1..k -> ArrElems] : k \in 0..MaxArr } \cup { SiteTags }

---------------------------------------------------------------------------
(* The calls *)

\* A caller holds an argument and is about to evaluate slugifyStr ("callStr")
\* or slugifyAll ("callAll") on it.
Init ==
    /\ ret = <<>>
    /\ \/ op = "callStr" /\ arg \in Inputs
       \/ op = "callAll" /\ arg \in Arrays
    /\ heap = <<>> /\ log = <<>> /\ lastIndex = 0
    /\ SiteIdle /\ ImageIdle

\* slugifyStr(arg) returns
SlugifyStr ==
    /\ op = "callStr"
    /\ op' = "slugifyStr"
    /\ ret' = slugifyStr(arg)
    /\ UNCHANGED <<arg, callVars, siteVars, imageVars>>

\* the caller evaluates slugifyStr on the slug the last call returned
SlugifyAgain ==
    /\ op \in { "slugifyStr", "slugifyAgain" }
    /\ op' = "slugifyAgain"
    /\ arg' = ret
    /\ ret' = slugifyStr(ret)
    /\ UNCHANGED <<callVars, siteVars, imageVars>>

\* slugifyAll(arg) returns
SlugifyAll ==
    /\ op = "callAll"
    /\ op' = "slugifyAll"
    /\ ret' = slugifyAll(arg)
    /\ UNCHANGED <<arg, callVars, siteVars, imageVars>>

Next == SlugifyStr \/ SlugifyAgain \/ SlugifyAll

Spec == Init /\ [][Next]_vars

---------------------------------------------------------------------------
(* Runs of calls: arrays by reference, and the state of the module *)

\* one of the two-character alternatives of reHasUnicodeWord matches at i:
\* [a-z][A-Z], [0-9][a-zA-Z] or [a-zA-Z][0-9]
HasTwoAt(s, i) ==
    /\ i < Len(s)
    /\ \/ s[i] \in AsciiLower /\ s[i+1] \in AsciiUpper
       \/ s[i] \in AsciiDigit /\ s[i+1] \in AsciiUpper \cup AsciiLower
       \/ s[i] \in AsciiUpper \cup AsciiLower /\ s[i+1] \in AsciiDigit

\* [A-Z]{2,}[a-z] matches at i
HasCapsLowerAt(s, i) ==
    /\ RunLen(s, i, AsciiUpper) >= 2
    /\ i + RunLen(s, i, AsciiUpper) <= Len(s)
    /\ s[i + RunLen(s, i, AsciiUpper)] \in AsciiLower

\* [^a-zA-Z0-9 ] matches at i
HasOtherAt(s, i) ==
    s[i] \notin AsciiUpper \cup AsciiLower \cup AsciiDigit \cup { " " }

\* the positions from position from on where reHasUnicodeWord matches
HasStarts(s, from) ==
    { i \in from..Len(s) :
        HasTwoAt(s, i) \/ HasCapsLowerAt(s, i) \/ HasOtherAt(s, i) }

\* the end of the leftmost match of reHasUnicodeWord in s that starts at
\* position from or later (the position after its last character), 0 when
\* there is none
hasUnicodeWordEnd(s, from) ==
    IF HasStarts(s, from) = {} THEN 0
    ELSE LET i == NthOf(HasStarts(s, from), 1)
         IN  IF HasTwoAt(s, i) THEN i + 2
             ELSE IF HasCapsLowerAt(s, i) THEN i + RunLen(s, i, AsciiUpper) + 1
             ELSE i + 1

\* reHasUnicodeWord.test(s) had the regular expression the g flag: the search
\* starts at lastIndex, and lastIndex is left at the end of the match, or at
\* 0 when there is none (li counts the characters before the start)
hasUnicodeWordTest_global(s, li) ==
    LET end == IF li > Len(s) THEN 0 ELSE hasUnicodeWordEnd(s, li + 1)
    IN  [ result |-> end # 0, lastIndex |-> IF end = 0 THEN 0 ELSE end - 1 ]

\* hasUnicodeWord(string) = reHasUnicodeWord.test(string): the regular
\* expression has no g and no y flag, so the search starts at the first
\* character whatever lastIndex is, and lastIndex is left as it is
hasUnicodeWordTest(s, li) ==
    [ result |-> hasUnicodeWord(s), lastIndex |-> li ]

\* kebabCase(string) with the state of the module: the slug and lastIndex
\* after the call
kebabcaseAt(s, li) ==
    LET x == removeApos(deburr(s))
        t == hasUnicodeWordTest(x, li)
        w == IF t.result THEN unicodeWords(x) ELSE asciiWords(x)
    IN  [ ret |-> arrayReduce(w, <<>>, 1), lastIndex |-> t.lastIndex ]

\* slugifyStr(str) with the state of the module
slugifyStrAt(s, li) == kebabcaseAt(strReplaced(s), li)

\* one call of map's callback, str => slugifyStr(str), on the element s: the
\* slug is pushed onto the result array built so far
mapCallback(acc, s) ==
    LET one == slugifyStrAt(s, acc.lastIndex)
    IN  [ rets      |-> Append(acc.rets, one.ret),
          calls     |-> Append(acc.calls, <<s, one.ret>>),
          lastIndex |-> one.lastIndex ]

\* map visits the elements of a from index i on, in order
RECURSIVE mapAt(_, _, _)
mapAt(a, i, acc) ==
    IF i > Len(a) THEN acc ELSE mapAt(a, i + 1, mapCallback(acc, a[i]))

\* arr.map(str => slugifyStr(str)) from module state li: the slugs in the
\* order of the elements, the calls made and the module state left behind
mapFrom(a, li) ==
    mapAt(a, 1, [ rets |-> <<>>, calls |-> <<>>, lastIndex |-> li ])

\* slugifyAll that writes the slugs into its argument and returns it
slugifyAllOn_inPlace(h, r, li) ==
    LET m == mapFrom(h[r], li)
    IN  [ heap |-> [ h EXCEPT ![r] = m.rets ], ref |-> r,
          calls |-> m.calls, lastIndex |-> m.lastIndex ]

\* slugifyAll(arr) for the array with reference r: map allocates a new array
\* for the slugs and returns its reference; arr is only read
slugifyAllOn(h, r, li) ==
    LET m == mapFrom(h[r], li)
    IN  [ heap |-> Append(h, m.rets), ref |-> Len(h) + 1,
          calls |-> m.calls, lastIndex |-> m.lastIndex ]

\* "c2 c": a letter/digit transition and a space
C2C == << "c", "2", " ", "c" >>

\* the strings of a run of calls
CallStrings == { CppTag, Cpp17Tag, C2C, DebuggersTag }

\* the arrays a run of calls starts with
CallArrays == UNION { [1..k -> CallStrings] : k \in 0..MaxArr }

\* a caller holds one array (the tags of a post)
CallsInit ==
    /\ op = "start" /\ arg = <<>> /\ ret = <<>>
    /\ heap \in { << a >> : a \in CallArrays }
    /\ log = <<>>
    /\ lastIndex = 0
    /\ SiteIdle /\ ImageIdle

\* the caller evaluates slugifyStr(s)
CallSlugifyStr ==
    \E s \in CallStrings :
        LET out == slugifyStrAt(s, lastIndex)
        IN  /\ Len(log) < MaxLog
            /\ op' = "slugifyStr"
            /\ arg' = s
            /\ ret' = out.ret
            /\ lastIndex' = out.lastIndex
            /\ log' = Append(log, <<s, out.ret>>)
            /\ UNCHANGED <<heap, siteVars, imageVars>>

\* the caller evaluates slugifyAll on one of the arrays it holds, an array
\* that slugifyAll returned before included
CallSlugifyAll ==
    \E r \in 1..Len(heap) :
        LET out == slugifyAllOn(heap, r, lastIndex)
        IN  /\ Len(heap) < MaxHeap
            /\ Len(log) + Len(out.calls) <= MaxLog
            /\ op' = "slugifyAll"
            /\ arg' = r
            /\ ret' = out.ref
            /\ heap' = out.heap
            /\ lastIndex' = out.lastIndex
            /\ log' = log \o out.calls
            /\ UNCHANGED <<siteVars, imageVars>>

CallsNext == CallSlugifyStr \/ CallSlugifyAll

SpecCalls == CallsInit /\ [][CallsNext]_vars

---------------------------------------------------------------------------
(* SITE.redirects and the front-matter of the posts *)

\* a path is its segments ("/posts/std-generator" is <<"posts",
\* "std-generator">>), whether it ends in ".html" and whether it ends in "/"
Path(segs)  == [ segs |-> segs, html |-> FALSE, slash |-> FALSE ]
Html(segs)  == [ segs |-> segs, html |-> TRUE,  slash |-> FALSE ]
Slash(segs) == [ segs |-> segs, html |-> FALSE, slash |-> TRUE ]

\* the path starts with "/posts/"
StartsWithPosts(p) ==
    /\ Len(p.segs) >= 1
    /\ p.segs[1] = "posts"
    /\ Len(p.segs) >= 2 \/ p.slash

\* the path without a trailing slash and without a ".html" suffix
Norm(p) == Path(p.segs)

\* a table in which a target is a key again
redirects_chained ==
    { << Path(<< "stack-and-heap" >>), Path(<< "posts", "stack-and-heap" >>) >>,
      << Path(<< "posts", "stack-and-heap" >>), Path(<< "stack-and-heap" >>) >> }

\* a table in which "/stack-and-heap.html" and "/stack-and-heap" lead to
\* different posts
redirects_disagreeing ==
    { << Html(<< "stack-and-heap" >>), Path(<< "posts", "stack-and-heap" >>) >>,
      << Path(<< "stack-and-heap" >>), Path(<< "posts", "heap-and-stack" >>) >> }

\* SITE.redirects: the entries <<key, target>>, in the order of the source
redirects ==
    {
      << Path(<< "c++", "2016", "07", "18", "stack-and-heap" >>),
         Path(<< "posts", "stack-and-heap" >>) >>,
      << Html(<< "stack-and-heap" >>),
         Path(<< "posts", "stack-and-heap" >>) >>,
      << Path(<< "stack-and-heap" >>),
         Path(<< "posts", "stack-and-heap" >>) >>,
      << Path(<< "c++", "2016", "07", "20", "structured-bindings" >>),
         Path(<< "posts", "structured-bindings" >>) >>,
      << Html(<< "structured-bindings" >>),
         Path(<< "posts", "structured-bindings" >>) >>,
      << Path(<< "structured-bindings" >>),
         Path(<< "posts", "structured-bindings" >>) >>,
      << Path(<< "c++", "2016", "07", "28", "integral_variable" >>),
         Path(<< "posts", "integral-variable" >>) >>,
      << Html(<< "integral_variable" >>),
         Path(<< "posts", "integral-variable" >>) >>,
      << Path(<< "integral_variable" >>),
         Path(<< "posts", "integral-variable" >>) >>,
      << Path(<< "c++", "2016", "08", "09", "try-catch-rethrow" >>),
         Path(<< "posts", "try-catch-rethrow" >>) >>,
      << Html(<< "try-catch-rethrow" >>),
         Path(<< "posts", "try-catch-rethrow" >>) >>,
      << Path(<< "try-catch-rethrow" >>),
         Path(<< "posts", "try-catch-rethrow" >>) >>,
      << Slash(<< "c++", "2016", "10", "18", "declare-class-in-func" >>),
         Path(<< "posts", "declare-class-in-func" >>) >>,
      << Html(<< "declare-class-in-func" >>),
         Path(<< "posts", "declare-class-in-func" >>) >>,
      << Path(<< "declare-class-in-func" >>),
         Path(<< "posts", "declare-class-in-func" >>) >>,
      << Path(<< "c++", "2016", "11", "01", "default-args" >>),
         Path(<< "posts", "selective-default-template-args" >>) >>,
      << Path(<< "default-args" >>),
         Path(<< "posts", "selective-default-template-args" >>) >>,
      << Html(<< "default-args" >>),
         Path(<< "posts", "selective-default-template-args" >>) >>,
      << Html(<< "exploding-tuples-fold-expressions" >>),
         Slash(<< "posts", "exploding-tuples-fold-expressions" >>) >>,
      << Path(<< "exploding-tuples-fold-expressions" >>),
         Slash(<< "posts", "exploding-tuples-fold-expressions" >>) >>,
      << Slash(<< "c++", "2016", "11", "10", "exploding-tuples-fold-expressions" >>),
         Slash(<< "posts", "exploding-tuples-fold-expressions" >>) >>,
      << Path(<< "c++", "2016", "12", "02", "type-erasure-unified-call" >>),
         Path(<< "posts", "type-erasure-unified-call" >>) >>,
      << Html(<< "type-erasure-unified-call" >>),
         Path(<< "posts", "type-erasure-unified-call" >>) >>,
      << Path(<< "type-erasure-unified-call" >>),
         Path(<< "posts", "type-erasure-unified-call" >>) >>,
      << Path(<< "c++", "2016", "12", "12", "if-constexpr" >>),
         Path(<< "posts", "if-constexpr" >>) >>,
      << Html(<< "if-constexpr" >>),
         Path(<< "posts", "if-constexpr" >>) >>,
      << Path(<< "if-constexpr" >>),
         Path(<< "posts", "if-constexpr" >>) >>,
      << Path(<< "c++", "2017", "01", "03", "deduction-on-the-left" >>),
         Path(<< "posts", "lazy-generators" >>) >>,
      << Html(<< "deduction-on-the-left" >>),
         Path(<< "posts", "lazy-generators" >>) >>,
      << Path(<< "deduction-on-the-left" >>),
         Path(<< "posts", "lazy-generators" >>) >>,
      << Path(<< "c++", "2017", "01", "11", "deduction-for-class-templates" >>),
         Path(<< "posts", "class-template-argument-deduction" >>) >>,
      << Html(<< "deduction-for-class-templates" >>),
         Path(<< "posts", "class-template-argument-deduction" >>) >>,
      << Path(<< "deduction-for-class-templates" >>),
         Path(<< "posts", "class-template-argument-deduction" >>) >>,
      << Slash(<< "c++", "2017", "01", "20", "initialization-is-bonkers" >>),
         Path(<< "posts", "cpp-initialization-is-bonkers" >>) >>,
      << Html(<< "initialization-is-bonkers" >>),
         Path(<< "posts", "cpp-initialization-is-bonkers" >>) >>,
      << Path(<< "initialization-is-bonkers" >>),
         Path(<< "posts", "cpp-initialization-is-bonkers" >>) >>,
      << Slash(<< "keyboards", "2017", "02", "28", "my-first-keyboard" >>),
         Path(<< "posts", "my-first-keyboard" >>) >>,
      << Html(<< "my-first-keyboard" >>),
         Path(<< "posts", "my-first-keyboard" >>) >>,
      << Path(<< "my-first-keyboard" >>),
         Path(<< "posts", "my-first-keyboard" >>) >>,
      << Path(<< "c++", "2017", "03", "21", "writing-a-linux-debugger-setup" >>),
         Path(<< "posts", "writing-a-linux-debugger", "setup" >>) >>,
      << Html(<< "writing-a-linux-debugger-setup" >>),
         Path(<< "posts", "writing-a-linux-debugger", "setup" >>) >>,
      << Path(<< "writing-a-linux-debugger-setup" >>),
         Path(<< "posts", "writing-a-linux-debugger", "setup" >>) >>,
      << Slash(<< "c++", "2017", "03", "24", "writing-a-linux-debugger-breakpoints" >>),
         Path(<< "posts", "writing-a-linux-debugger", "breakpoints" >>) >>,
      << Html(<< "writing-a-linux-debugger-breakpoints" >>),
         Path(<< "posts", "writing-a-linux-debugger", "breakpoints" >>) >>,
      << Path(<< "writing-a-linux-debugger-breakpoints" >>),
         Path(<< "posts", "writing-a-linux-debugger", "breakpoints" >>) >>,
      << Path(<< "c++", "2017", "03", "31", "writing-a-linux-debugger-registers" >>),
         Path(<< "posts", "writing-a-linux-debugger", "registers-and-memory" >>) >>,
      << Html(<< "writing-a-linux-debugger-registers" >>),
         Path(<< "posts", "writing-a-linux-debugger", "registers-and-memory" >>) >>,
      << Path(<< "writing-a-linux-debugger-registers" >>),
         Path(<< "posts", "writing-a-linux-debugger", "registers-and-memory" >>) >>,
      << Path(<< "c++", "2017", "04", "05", "writing-a-linux-debugger-elf-dwarf" >>),
         Path(<< "posts", "writing-a-linux-debugger", "elves-and-dwarves" >>) >>,
      << Html(<< "writing-a-linux-debugger-elf-dwarf" >>),
         Path(<< "posts", "writing-a-linux-debugger", "elves-and-dwarves" >>) >>,
      << Path(<< "writing-a-linux-debugger-elf-dwarf" >>),
         Path(<< "posts", "writing-a-linux-debugger", "elves-and-dwarves" >>) >>,
      << Path(<< "c++", "2017", "04", "24", "writing-a-linux-debugger-source-signal" >>),
         Path(<< "posts", "writing-a-linux-debugger", "source-and-signals" >>) >>,
      << Html(<< "writing-a-linux-debugger-source-signal" >>),
         Path(<< "posts", "writing-a-linux-debugger", "source-and-signals" >>) >>,
      << Path(<< "writing-a-linux-debugger-source-signal" >>),
         Path(<< "posts", "writing-a-linux-debugger", "source-and-signals" >>) >>,
      << Path(<< "c++", "2017", "04", "27", "accu-day-1" >>),
         Path(<< "posts", "trip-reports", "accuconf-2017-workshop-day" >>) >>,
      << Html(<< "accu-day-1" >>),
         Path(<< "posts", "trip-reports", "accuconf-2017-workshop-day" >>) >>,
      << Path(<< "accu-day-1" >>),
         Path(<< "posts", "trip-reports", "accuconf-2017-workshop-day" >>) >>,
      << Path(<< "c++", "2017", "05", "02", "accu-trip-report" >>),
         Path(<< "posts", "trip-reports", "accuconf-2017" >>) >>,
      << Html(<< "accu-trip-report" >>),
         Path(<< "posts", "trip-reports", "accuconf-2017" >>) >>,
      << Path(<< "accu-trip-report" >>),
         Path(<< "posts", "trip-reports", "accuconf-2017" >>) >>,
      << Path(<< "c++", "2017", "05", "06", "writing-a-linux-debugger-dwarf-step" >>),
         Path(<< "posts", "writing-a-linux-debugger", "source-level-stepping" >>) >>,
      << Html(<< "writing-a-linux-debugger-dwarf-step" >>),
         Path(<< "posts", "writing-a-linux-debugger", "source-level-stepping" >>) >>,
      << Path(<< "writing-a-linux-debugger-dwarf-step" >>),
         Path(<< "posts", "writing-a-linux-debugger", "source-level-stepping" >>) >>,
      << Path(<< "c++", "2017", "05", "19", "sycl" >>),
         Path(<< "posts", "sycl" >>) >>,
      << Html(<< "sycl" >>),
         Path(<< "posts", "sycl" >>) >>,
      << Path(<< "sycl" >>),
         Path(<< "posts", "sycl" >>) >>,
      << Path(<< "c++", "2017", "06", "19", "writing-a-linux-debugger-source-break" >>),
         Path(<< "posts", "writing-a-linux-debugger", "source-level-breakpoints" >>) >>,
      << Html(<< "writing-a-linux-debugger-source-break" >>),
         Path(<< "posts", "writing-a-linux-debugger", "source-level-breakpoints" >>) >>,
      << Path(<< "writing-a-linux-debugger-source-break" >>),
         Path(<< "posts", "writing-a-linux-debugger", "source-level-breakpoints" >>) >>,
      << Path(<< "c++", "2017", "06", "24", "writing-a-linux-debugger-unwinding" >>),
         Path(<< "posts", "writing-a-linux-debugger", "stack-unwinding" >>) >>,
      << Html(<< "writing-a-linux-debugger-unwinding" >>),
         Path(<< "posts", "writing-a-linux-debugger", "stack-unwinding" >>) >>,
      << Path(<< "writing-a-linux-debugger-unwinding" >>),
         Path(<< "posts", "writing-a-linux-debugger", "stack-unwinding" >>) >>,
      << Path(<< "c++", "2017", "06", "28", "metaclasses-edsl" >>),
         Path(<< "posts", "metaclasses-for-edsls" >>) >>,
      << Html(<< "metaclasses-edsl" >>),
         Path(<< "posts", "metaclasses-for-edsls" >>) >>,
      << Path(<< "metaclasses-edsl" >>),
         Path(<< "posts", "metaclasses-for-edsls" >>) >>,
      << Path(<< "c++", "2017", "07", "20", "c++17-attributes" >>),
         Path(<< "posts", "cpp17-attributes" >>) >>,
      << Html(<< "c++17-attributes" >>),
         Path(<< "posts", "cpp17-attributes" >>) >>,
      << Path(<< "c++17-attributes" >>),
         Path(<< "posts", "cpp17-attributes" >>) >>,
      << Path(<< "c++", "2017", "07", "26", "writing-a-linux-debugger-variables" >>),
         Path(<< "posts", "writing-a-linux-debugger", "handling-variables" >>) >>,
      << Html(<< "writing-a-linux-debugger-variables" >>),
         Path(<< "posts", "writing-a-linux-debugger", "handling-variables" >>) >>,
      << Path(<< "writing-a-linux-debugger-variables" >>),
         Path(<< "posts", "writing-a-linux-debugger", "handling-variables" >>) >>,
      << Path(<< "c++", "2017", "08", "01", "writing-a-linux-debugger-advanced-topics" >>),
         Path(<< "posts", "writing-a-linux-debugger", "advanced-topics" >>) >>,
      << Html(<< "writing-a-linux-debugger-advanced-topics" >>),
         Path(<< "posts", "writing-a-linux-debugger", "advanced-topics" >>) >>,
      << Path(<< "writing-a-linux-debugger-advanced-topics" >>),
         Path(<< "posts", "writing-a-linux-debugger", "advanced-topics" >>) >>,
      << Path(<< "c++", "2017", "08", "08", "silly-syntax" >>),
         Path(<< "posts", "silly-cpp-syntax" >>) >>,
      << Html(<< "silly-syntax" >>),
         Path(<< "posts", "silly-cpp-syntax" >>) >>,
      << Path(<< "silly-syntax" >>),
         Path(<< "posts", "silly-cpp-syntax" >>) >>,
      << Path(<< "learning-cpp" >>),
         Path(<< "posts", "learning-cpp" >>) >>,
      << Path(<< "detection-idiom" >>),
         Path(<< "posts", "detection-idiom" >>) >>,
      << Path(<< "meetingcpp-2017" >>),
         Path(<< "posts", "trip-reports", "meeting-cpp-2017" >>) >>,
      << Path(<< "optional-expected" >>),
         Path(<< "posts", "optional-and-expected" >>) >>,
      << Path(<< "exception-data" >>),
         Path(<< "posts", "a-call-for-data-on-exceptions" >>) >>,
      << Path(<< "passing-overload-sets" >>),
         Path(<< "posts", "passing-overload-sets" >>) >>,
      << Path(<< "inline-hints" >>),
         Path(<< "posts", "inline-hints" >>) >>,
      << Path(<< "no-pointers" >>),
         Path(<< "posts", "no-more-pointers" >>) >>,
      << Path(<< "llvm-alias-analysis" >>),
         Path(<< "posts", "llvm-alias-analysis" >>) >>,
      << Path(<< "accumulate-vs-reduce" >>),
         Path(<< "posts", "accumulate-vs-reduce" >>) >>,
      << Path(<< "function-template-partial-ordering" >>),
         Path(<< "posts", "function-template-partial-ordering" >>) >>,
      << Path(<< "simple-named-boolean-parameters" >>),
         Path(<< "posts", "simple-named-boolean-arguments" >>) >>,
      << Path(<< "spaceship-operator" >>),
         Path(<< "posts", "spaceship-operator" >>) >>,
      << Path(<< "guaranteed-copy-elision" >>),
         Path(<< "posts", "guaranteed-copy-elision" >>) >> }

\* new URL(canonicalURL).pathname
pathname(url) == url.path

\* the origin of every canonicalURL
Origin == "https://tartanllama.xyz"

\* the front-matter of the posts in src: the title, the tags, the canonicalURL
\* (origin and path) and the draft flag

post_passing_overload_sets ==
    [ title        |-> "Passing Overload Sets to Functions",
      tags         |-> << CppTag >>,
      canonicalURL |-> [ origin |-> Origin,
                         path   |-> Path(<< "posts", "passing-overload-sets" >>) ],
      draft        |-> FALSE ]

post_conditionally_explicit_constructors ==
    [ title        |-> "C++20's Conditionally Explicit Constructors",
      tags         |-> << CppTag, Cpp20Tag >>,
      canonicalURL |-> [ origin |-> Origin,
                         path   |-> Path(<< "posts", "conditionally-explicit-constructors" >>) ],
      draft        |-> FALSE ]

post_simple_named_boolean_arguments ==
    [ title        |-> "Simple Named Boolean Arguments",
      tags         |-> << CppTag >>,
      canonicalURL |-> [ origin |-> Origin,
                         path   |-> Path(<< "posts", "simple-named-boolean-arguments" >>) ],
      draft        |-> FALSE ]

post_meeting_cpp_2017 ==
    [ title        |-> "Meeting C++ 2017 Trip Report",
      tags         |-> << TripReport, MeetingCpp >>,
      canonicalURL |-> [ origin |-> Origin,
                         path   |-> Path(<< "posts", "trip-reports", "meeting-cpp-2017" >>) ],
      draft        |-> FALSE ]

post_conditionally_trivial_special_member_functions ==
    [ title        |-> "Conditionally Trivial Special Member Functions",
      tags         |-> << CppTag, Cpp20Tag, Metaprogramming >>,
      canonicalURL |-> [ origin |-> Origin,
                         path   |-> Path(<< "posts", "conditionally-trivial-special-member-functions" >>) ],
      draft        |-> FALSE ]

post_performance_benefits_of_final_classes ==
    [ title        |-> "The Performance Benefits of Final Classes",
      tags         |-> << CppTag >>,
      canonicalURL |-> [ origin |-> Origin,
                         path   |-> Path(<< "posts", "performance-benefits-of-final-classes" >>) ],
      draft        |-> FALSE ]

post_wasm_circular_dependencies ==
    [ title        |-> "WebAssembly Components: Circular Dependencies and World Elaboration",
      tags         |-> << WebAssembly >>,
      canonicalURL |-> [ origin |-> Origin,
                         path   |-> Path(<< "posts", "wasm-circular-dependencies" >>) ],
      draft        |-> TRUE ]

post_silly_cpp_syntax ==
    [ title        |-> "void C::C::C::A::A::A::foo(): Valid Syntax Monstrosity",
      tags         |-> << CppTag >>,
      canonicalURL |-> [ origin |-> Origin,
                         path   |-> Path(<< "posts", "silly-cpp-syntax" >>) ],
      draft        |-> FALSE ]

post_try_catch_rethrow ==
    [ title        |-> "The Effect of a try-catch-rethrow",
      tags         |-> << CppTag >>,
      canonicalURL |-> [ origin |-> Origin,
                         path   |-> Path(<< "posts", "try-catch-rethrow" >>) ],
      draft        |-> FALSE ]

post_deducing_this ==
    [ title        |-> "C++23's Deducing this",
      tags         |-> << CppTag, Cpp23Tag, Metaprogramming >>,
      canonicalURL |-> [ origin |-> Origin,
                         path   |-> Path(<< "posts", "deducing-this" >>) ],
      draft        |-> FALSE ]

post_setup ==
    [ title        |-> "Writing a Linux Debugger Part 1: Setup",
      tags         |-> << DebuggersTag, WritingALinuxDebugger >>,
      canonicalURL |-> [ origin |-> Origin,
                         path   |-> Path(<< "posts", "writing-a-linux-debugger", "setup" >>) ],
      draft        |-> FALSE ]

post_source_level_stepping ==
    [ title        |-> "Writing a Linux Debugger Part 6: Source-Level Stepping",
      tags         |-> << DebuggersTag, WritingALinuxDebugger >>,
      canonicalURL |-> [ origin |-> Origin,
                         path   |-> Path(<< "posts", "writing-a-linux-debugger", "source-level-stepping" >>) ],
      draft        |-> FALSE ]

post_stack_unwinding ==
    [ title        |-> "Writing a Linux Debugger Part 8: Stack Unwinding",
      tags         |-> << DebuggersTag, WritingALinuxDebugger >>,
      canonicalURL |-> [ origin |-> Origin,
                         path   |-> Path(<< "posts", "writing-a-linux-debugger", "stack-unwinding" >>) ],
      draft        |-> FALSE ]

post_abbreviated_function_templates ==
    [ title        |-> "Abbreviated Function Templates and Constrained Auto",
      tags         |-> << CppTag, Cpp20Tag, Metaprogramming >>,
      canonicalURL |-> [ origin |-> Origin,
                         path   |-> Path(<< "posts", "abbreviated-function-templates" >>) ],
      draft        |-> FALSE ]

post_accuconf_2017_workshop_day ==
    [ title        |-> "ACCUConf 2017 Workshop Day Report",
      tags         |-> << TripReport, ACCUConf >>,
      canonicalURL |-> [ origin |-> Origin,
                         path   |-> Path(<< "posts", "trip-reports", "accuconf-2017-workshop-day" >>) ],
      draft        |-> FALSE ]

post_std_generator ==
    [ title        |-> "std::generator: Standard Library Coroutine Support",
      tags         |-> << CppTag, Cpp23Tag >>,
      canonicalURL |-> [ origin |-> Origin,
                         path   |-> Path(<< "posts", "std-generator" >>) ],
      draft        |-> FALSE ]

post_structured_bindings ==
    [ title        |-> "Adding C++17 Structured Bindings Support to Your Classes",
      tags         |-> << CppTag, Cpp17Tag >>,
      canonicalURL |-> [ origin |-> Origin,
                         path   |-> Path(<< "structured-bindings" >>) ],
      draft        |-> FALSE ]

post_declare_class_in_func ==
    [ title        |-> "Declaring Classes in Function Declarations",
      tags         |-> << CppTag >>,
      canonicalURL |-> [ origin |-> Origin,
                         path   |-> Path(<< "posts", "declare-class-in-func" >>) ],
      draft        |-> FALSE ]

post_cpp17_attributes ==
    [ title        |-> "C++17 attributes: maybe_unused, fallthrough and nodiscard",
      tags         |-> << CppTag, Cpp17Tag >>,
      canonicalURL |-> [ origin |-> Origin,
                         path   |-> Path(<< "posts", "cpp17-attributes" >>) ],
      draft        |-> FALSE ]

post_fold_algorithms ==
    [ title        |-> "C++23's Fold Algorithms",
      tags         |-> << CppTag, Cpp23Tag >>,
      canonicalURL |-> [ origin |-> Origin,
                         path   |-> Path(<< "posts", "fold-algorithms" >>) ],
      draft        |-> FALSE ]

\* a collection in which a post has an empty tag
Posts_emptyTag ==
    { [ post_std_generator EXCEPT !.tags = << CppTag, << >> >> ] }

\* the posts whose front-matter is in src
Posts ==
    { post_passing_overload_sets,
      post_conditionally_explicit_constructors,
      post_simple_named_boolean_arguments,
      post_meeting_cpp_2017,
      post_conditionally_trivial_special_member_functions,
      post_performance_benefits_of_final_classes,
      post_wasm_circular_dependencies,
      post_silly_cpp_syntax,
      post_try_catch_rethrow,
      post_deducing_this,
      post_setup,
      post_source_level_stepping,
      post_stack_unwinding,
      post_abbreviated_function_templates,
      post_accuconf_2017_workshop_day,
      post_std_generator,
      post_structured_bindings,
      post_declare_class_in_func,
      post_cpp17_attributes,
      post_fold_algorithms }

\* the keys and the targets of SITE.redirects
Keys    == { e[1] : e \in redirects }
Targets == { e[2] : e \in redirects }

\* the key k is the key looked up for the requested path p; a routing layer
\* that ignores a trailing slash and ".html" compares the paths without them
Matches(k, p, l) == IF l THEN Norm(k) = Norm(p) ELSE k = p

\* SITE.redirects[p]: the targets of the entries whose key is looked up for p
\* (no entry: the empty set)
redirectTargets(p, l) ==
    { e[2] : e \in { d \in redirects : Matches(d[1], p, l) } }

\* most redirects followed for one request
MaxHops == 3

\* the paths a visitor asks for: the legacy paths, the current paths and the
\* canonical paths of the posts, each also with "/" or ".html" appended
Requests ==
    LET known == Keys \cup Targets
                 \cup { pathname(p.canonicalURL) : p \in Posts }
    IN  known \cup { Slash(q.segs) : q \in known }
              \cup { Html(q.segs) : q \in known }

\* a visitor asks for a path; the build has read no post yet
SiteInit ==
    /\ CallsIdle /\ ImageIdle
    /\ req \in Requests
    /\ asked = req
    /\ hops = 0
    /\ loose \in BOOLEAN
    /\ post = <<>>

\* the routing layer finds the requested path in SITE.redirects and sends the
\* visitor to the target
FollowRedirect ==
    /\ hops < MaxHops
    /\ \E t \in redirectTargets(req, loose) :
           /\ req' = t
           /\ hops' = hops + 1
    /\ UNCHANGED <<op, arg, ret, callVars, asked, loose, post, imageVars>>

\* the build reads the front-matter of a post
ReadPost ==
    /\ \E p \in Posts : post' = p
    /\ UNCHANGED <<op, arg, ret, callVars, asked, req, hops, loose, imageVars>>

SiteNext == FollowRedirect \/ ReadPost

SpecSite == SiteInit /\ [][SiteNext]_vars

---------------------------------------------------------------------------
(* The themed image component *)

\* the two assets of the component (ImageMetadata)
lightSrc == "lightSrc"
darkSrc  == "darkSrc"

\* most class names in the class prop of a caller
MaxClasses == 2

\* the class names a caller passes: a display utility and its dark variant,
\* and two utilities that do not touch display
CallerClasses == { "hidden", "dark:hidden", "rounded", "mx-auto" }

\* the values of the class prop: a class attribute is the list of its class
\* names
ClassNames == UNION { [1..k -> CallerClasses] : k \in 0..MaxClasses }

\* the values of the width and height props
Sizes == { 0, 640 }

\* a prop that is passed, and a prop that is not
Passed(name, values) == { name :> v : v \in values }
NotPassed == { << >> }

\* Astro.props: lightSrc, darkSrc and alt are required; class, width and
\* height are optional
PropsSet ==
    { [ lightSrc |-> lightSrc, darkSrc |-> darkSrc, alt |-> "diagram" ]
          @@ c @@ w @@ h :
        c \in Passed("class", ClassNames) \cup NotPassed,
        w \in Passed("width", Sizes) \cup NotPassed,
        h \in Passed("height", Sizes) \cup NotPassed }

\* class: className = "": the class prop, the empty string when it is not
\* passed
className(p) == IF "class" \in DOMAIN p THEN p.class ELSE << >>

\* buildImageProps without additionalClass in the class
buildImageProps_noAdditionalClass(p, src, additionalClass) ==
    LET base == [ alt |-> p.alt, src |-> src,
                  class |-> << "border-0" >> \o className(p) ]
        w    == IF "width" \in DOMAIN p
                THEN base @@ ("width" :> p.width) ELSE base
    IN  IF "height" \in DOMAIN p THEN w @@ ("height" :> p.height) ELSE w

\* buildImageProps with "if (width)" and "if (height)": a width or height
\* of 0 is dropped
buildImageProps_truthy(p, src, additionalClass) ==
    LET base == [ alt |-> p.alt, src |-> src,
                  class |-> additionalClass \o << "border-0" >>
                                \o className(p) ]
        w    == IF "width" \in DOMAIN p /\ p.width # 0
                THEN base @@ ("width" :> p.width) ELSE base
    IN  IF "height" \in DOMAIN p /\ p.height # 0
        THEN w @@ ("height" :> p.height) ELSE w

\* buildImageProps(src, additionalClass) in a component with the props p:
\* the class is `${additionalClass} border-0 ${className}`, and width and
\* height are set only when they are not undefined
buildImageProps(p, src, additionalClass) ==
    LET base == [ alt |-> p.alt, src |-> src,
                  class |-> additionalClass \o << "border-0" >>
                                \o className(p) ]
        w    == IF "width" \in DOMAIN p
                THEN base @@ ("width" :> p.width) ELSE base
    IN  IF "height" \in DOMAIN p THEN w @@ ("height" :> p.height) ELSE w

\* the template of the component: the two <Image> elements
Render(p) ==
    << buildImageProps(p, p.lightSrc, << "block", "dark:hidden" >>),
       buildImageProps(p, p.darkSrc, << "hidden", "dark:block" >>) >>

\* Tailwind: the class names that set the display property
DisplayClasses == { "block", "hidden", "dark:block", "dark:hidden" }

\* Tailwind: the rule of a dark: class applies in dark mode only
Applies(c, m) == c \in { "block", "hidden" } \/ m = "dark"

\* Tailwind: the place of the rule in the stylesheet; of the rules that apply
\* to an element the last one sets the property: .hidden comes after .block,
\* the dark: variants come after the plain utilities
RuleOrder(c) ==
    CASE c = "block"       -> 1
      [] c = "hidden"      -> 2
      [] c = "dark:block"  -> 3
      [] c = "dark:hidden" -> 4

\* Tailwind: the display value of the rule
RuleDisplay(c) == IF c \in { "block", "dark:block" } THEN "block" ELSE "none"

\* the computed display of an <img> with the class list cls in mode m
Display(cls, m) ==
    LET app == { c \in Range(cls) \cap DisplayClasses : Applies(c, m) }
    IN  IF app = {} THEN "inline"
        ELSE RuleDisplay(CHOOSE c \in app :
                             \A d \in app : RuleOrder(d) <= RuleOrder(c))

\* the image is displayed in mode m
Displayed(img, m) == Display(img.class, m) # "none"

\* a page renders the component; the page is in light mode until the theme
\* is switched
ImageInit ==
    /\ CallsIdle /\ SiteIdle
    /\ mode = "light"
    /\ props \in PropsSet
    /\ images = Render(props)

\* the visitor switches the page to dark mode
SwitchToDark ==
    /\ mode = "light"
    /\ mode' = "dark"
    /\ UNCHANGED <<op, arg, ret, callVars, siteVars, props, images>>

\* the visitor switches the page to light mode
SwitchToLight ==
    /\ mode = "dark"
    /\ mode' = "light"
    /\ UNCHANGED <<op, arg, ret, callVars, siteVars, props, images>>

ImageNext == SwitchToDark \/ SwitchToLight

SpecImage == ImageInit /\ [][ImageNext]_vars

---------------------------------------------------------------------------
(* Properties of slugifyStr and slugifyAll *)

\* "cpp"
Cpp == << "c", "p", "p" >>

\* the token "C++" occurs in s at position i
CppAt(s, i) ==
    i + 2 <= Len(s) /\ s[i] = "C" /\ s[i+1] = "+" /\ s[i+2] = "+"

\* s contains the substring "C++"
HasCpp(s) == \E i \in 1..Len(s) : CppAt(s, i)

\* a call of slugifyStr has returned
Returned == op \in { "slugifyStr", "slugifyAgain" }

C2_RewriteThenKebab ==
    op = "slugifyStr" =>
        /\ \/ ~ HasCpp(arg) /\ ret = kebabcase(arg)
           \/ \E i \in 1..Len(arg) :
                 /\ CppAt(arg, i)
                 /\ \A j \in 1..(i - 1) : ~ CppAt(arg, j)
                 /\ ret = kebabcase(SubSeq(arg, 1, i - 1) \o Cpp
                                      \o SubSeq(arg, i + 3, Len(arg)))
        /\ arg \in { << "C" >>, << "C", "C" >>, << "C", "+" >>, << "c", "+", "+" >> } =>
              /\ strReplaced(arg) = arg
              /\ ret # Cpp

\* slugifyStr("c++") returned "c", and not "cpp"
C2_Witness ==
    op = "slugifyStr" /\ arg = << "c", "+", "+" >> /\ ret = << "c" >>

\* C3: a slug contains no upper-case character.
C3_NoUppercase ==
    Returned => \A i \in DOMAIN ret : ret[i] \notin AsciiUpper \cup LatinUpper

\* slugifyStr("ACCUConf") returned "accu-conf"
C3_Witness ==
    op = "slugifyStr" /\ arg = ACCUConf /\ ret = << "a", "c", "c", "u", "-", "c", "o", "n", "f" >>

\* C4 as stated: slugifyStr("Deducing This (C++23)") = "deducing-this-cpp23".
C4_Original ==
    (op = "slugifyStr" /\ arg = DeducingThis) => ret = << "d", "e", "d", "u", "c", "i", "n", "g", "-", "t", "h", "i", "s", "-", "c", "p", "p", "2", "3" >>

\* C4, amended: slugifyStr("Deducing This (C++23)") = "deducing-this-cpp-23":
\* the parentheses and spaces become single hyphens, and the rewritten token
\* "cpp" is separated from the digits "23" by a hyphen.
C4_DeducingThis ==
    (op = "slugifyStr" /\ arg = DeducingThis) => ret = << "d", "e", "d", "u", "c", "i", "n", "g", "-", "t", "h", "i", "s", "-", "c", "p", "p", "-", "2", "3" >>

\* slugifyStr("Deducing This (C++23)") has returned
C4_Witness ==
    op = "slugifyStr" /\ arg = DeducingThis /\ ret # <<>>

\* ASCII characters, letters, and letters and digits
Ascii == AsciiUpper \cup AsciiLower \cup AsciiDigit \cup AsciiOther

Letter == AsciiUpper \cup AsciiLower

Alnum == Letter \cup AsciiDigit

\* p < q are the positions of two letters or digits of u with none between
\* them: q starts a new word when separator characters lie between them,
\* when u[p] is lower case and u[q] upper case, or when one is a digit and
\* the other a letter
StartsWord(u, p, q) ==
    \/ q > p + 1
    \/ u[p] \in AsciiLower /\ u[q] \in AsciiUpper
    \/ u[p] \in AsciiDigit /\ u[q] \in Letter
    \/ u[p] \in Letter /\ u[q] \in AsciiDigit

\* out is u in kebab case: the letters and digits of u in order and lower
\* case, no hyphen before the first or after the last, at most one hyphen
\* between two of them, and exactly one wherever a new word starts
KebabOf(u, out) ==
    LET A == { i \in 1..Len(u) : u[i] \in Alnum }
        B == { i \in 1..Len(out) : out[i] # "-" }
        n == Cardinality(A)
    IN  /\ Cardinality(B) = n
        /\ \A k \in 1..n : out[NthOf(B, k)] = lowerChar(u[NthOf(A, k)])
        /\ n = 0 => out = <<>>
        /\ n > 0 => NthOf(B, 1) = 1 /\ NthOf(B, n) = Len(out)
        /\ \A k \in 1..(n - 1) :
              LET gap == NthOf(B, k + 1) - NthOf(B, k)
              IN  /\ gap \in { 1, 2 }
                  /\ StartsWord(u, NthOf(A, k), NthOf(A, k + 1)) => gap = 2

\* C5 as stated: the kebab-case step starts a new word at every lower-to-upper
\* case change, at every run of non-alphanumeric characters and at every
\* digit/letter transition of the rewritten string; the words are lower-cased
\* and joined by exactly one hyphen each.
C5_Original ==
    (op = "slugifyStr" /\ arg \in Seq(Ascii)) => KebabOf(strReplaced(arg), ret)

\* C5, amended: for a string of ASCII characters, the kebab-case step first
\* deletes every apostrophe, and then starts a new word at every lower-to-upper
\* case change, at every run of non-alphanumeric characters and at every
\* digit/letter transition; the words are lower-cased and joined by exactly
\* one hyphen each.
C5_KebabBoundaries ==
    (op = "slugifyStr" /\ arg \in Seq(Ascii)) =>
        KebabOf(removeApos(strReplaced(arg)), ret)

\* slugifyStr("don'tStop 2go") returned "dont-stop-2-go"
C5_Witness ==
    op = "slugifyStr" /\ arg = DontStop /\ ret = << "d", "o", "n", "t", "-", "s", "t", "o", "p", "-", "2", "-", "g", "o" >>

\* C6: slugifyStr("C++") = "cpp".
C6_CppTag == (op = "slugifyStr" /\ arg = CppTag) => ret = Cpp

\* slugifyStr("C++") has returned a slug of three characters
C6_Witness == op = "slugifyStr" /\ arg = CppTag /\ Len(ret) = 3

\* C7: slugifyAll returns an array of the length of its argument whose i-th
\* element is the slug of the i-th element of the argument; and
\* slugifyAll(["C++", "Debuggers"]) = ["cpp", "debuggers"].
C7_ElementWise ==
    op = "slugifyAll" =>
        /\ Len(ret) = Len(arg)
        /\ \A i \in 1..Len(arg) : ret[i] = slugifyStr(arg[i])
        /\ arg = << CppTag, DebuggersTag >> => ret = << Cpp, << "d", "e", "b", "u", "g", "g", "e", "r", "s" >> >>

\* slugifyAll(["c", "c"]) returned both slugs
C7_Witness ==
    op = "slugifyAll" /\ arg = << <<"c">>, <<"c">> >> /\ Len(ret) = 2

\* C8: slugifyStr("") = "".
C8_Empty == (op = "slugifyStr" /\ arg = <<>>) => ret = <<>>

\* slugifyStr("") has returned
C8_Witness == op = "slugifyStr" /\ arg = <<>> /\ Len(ret) = 0

\* C9: every call returns: slugifyStr returns a string, slugifyAll an array
\* of strings, and neither a thrown error.
C9_Total ==
    /\ Returned => IsString(ret)
    /\ op = "slugifyAll" => \A i \in DOMAIN ret : IsString(ret[i])

\* slugifyStr(" +-'") (separators only) has returned a string
C9_Witness ==
    op = "slugifyStr" /\ arg = << " ", "+", "-", "'" >> /\ IsString(ret)

\* C10: for an argument without the substring "C++", the rewrite changes
\* nothing: the slug is the kebab-case conversion of the argument itself.
C10_NoCppUnchanged ==
    (op = "slugifyStr" /\ ~ HasCpp(arg)) =>
        strReplaced(arg) = arg /\ ret = kebabcase(arg)

\* slugifyStr("c++ C+") returned "c-c"
C10_Witness ==
    op = "slugifyStr" /\ arg = << "c", "+", "+", " ", "C" >> /\ ret = << "c", "-", "c" >>

\* a URL-safe slug: lower-case ASCII letters, digits and hyphens only (so no
\* "+"), no hyphen first or last, no two hyphens in a row
UrlSafe(s) ==
    /\ \A i \in DOMAIN s : s[i] \in AsciiLower \cup AsciiDigit \cup { "-" }
    /\ \A i \in DOMAIN s : s[i] # "+"
    /\ s # <<>> => s[1] # "-" /\ s[Len(s)] # "-"
    /\ \A i \in 1..(Len(s) - 1) : ~ (s[i] = "-" /\ s[i+1] = "-")

\* C11 as stated: every slug is URL-safe, for every string.
C11_Original == Returned => UrlSafe(ret)

\* C11, amended: for every string of ASCII characters the slug is URL-safe:
\* it consists only of lower-case letters, digits and hyphens, never contains
\* "+", and has no leading hyphen, no trailing hyphen and no two adjacent
\* hyphens.
C11_UrlSafeAscii == (Returned /\ arg \in Seq(Ascii)) => UrlSafe(ret)

\* slugifyStr("-C++-") returned "cpp"
C11_Witness == op = "slugifyStr" /\ arg = HyphenCpp /\ ret = Cpp

\* C12: slugifyAll has no side effect on its argument: no call changes an
\* array that exists (same elements, same order), and the array slugifyAll
\* returns is a new one, not its argument.
C12_NoSideEffect ==
    [][ /\ \A r \in 1..Len(heap) : heap'[r] = heap[r]
        /\ op' = "slugifyAll" =>
              /\ ret' # arg'
              /\ ret' \notin 1..Len(heap) ]_vars

\* slugifyAll(["C++", "Debuggers"]) returned a new array with the slugs, and
\* the argument still holds the tags
C12_Witness ==
    /\ op = "slugifyAll"
    /\ heap[arg] = << CppTag, DebuggersTag >>
    /\ heap[ret] = << Cpp, << "d", "e", "b", "u", "g", "g", "e", "r", "s" >> >>

\* C13: slugs are stable: two slugifyStr calls with the same string returned
\* the same slug, whatever calls were made between them.
C13_Stable ==
    \A i, j \in 1..Len(log) : log[i][1] = log[j][1] => log[i][2] = log[j][2]

\* "C++17" was slugified, then another string, then "C++17" again
C13_Witness ==
    \E i, j, k \in 1..Len(log) :
        /\ i < j /\ j < k
        /\ log[i][1] = Cpp17Tag /\ log[k][1] = Cpp17Tag
        /\ log[j][1] # Cpp17Tag
        /\ log[k][2] = << "c", "p", "p", "-", "1", "7" >>

\* the positions of s where the token "C++" occurs
CppPositions(s) == { i \in 1..Len(s) : CppAt(s, i) }

\* C17: when "C++" occurs two or more times, only the leftmost occurrence is
\* rewritten: every later occurrence is still there when the kebab-case step
\* runs; slugifyStr("C++ and C++") = "cpp-and-c".
C17_LeftmostOnly ==
    (op = "slugifyStr" /\ arg \in Seq(Char) /\ Cardinality(CppPositions(arg)) >= 2) =>
        LET first == NthOf(CppPositions(arg), 1)
            rewritten == SubSeq(arg, 1, first - 1) \o Cpp
                           \o SubSeq(arg, first + 3, Len(arg))
        IN  /\ strReplaced(arg) = rewritten
            /\ CppPositions(rewritten) = CppPositions(arg) \ { first }
            /\ ret = kebabcase(rewritten)
            /\ arg = CppTwice => ret = << "c", "p", "p", "-", "a", "n", "d", "-", "c" >>

\* slugifyStr("C++C++") returned "cpp-c"
C17_Witness == op = "slugifyStr" /\ arg = CppCpp /\ ret = << "c", "p", "p", "-", "c" >>

\* C19: the tags of the posts have pairwise distinct, non-empty slugs.
C19_TagSlugsDistinct ==
    (op = "slugifyAll" /\ arg = SiteTags) =>
        /\ Len(ret) = Len(SiteTags)
        /\ \A i \in DOMAIN ret : ret[i] # <<>>
        /\ \A i, j \in DOMAIN ret : i # j => ret[i] # ret[j]

\* slugifyAll of the tags returned "cpp" first and "web-assembly" last
C19_Witness ==
    /\ op = "slugifyAll" /\ arg = SiteTags
    /\ ret[1] = Cpp /\ ret[Len(SiteTags)] = << "w", "e", "b", "-", "a", "s", "s", "e", "m", "b", "l", "y" >>

\* C20 as stated: the slug is empty exactly when the argument contains no
\* letter and no digit; an argument made only of whitespace and punctuation
\* has the empty slug.
C20_Original ==
    op = "slugifyStr" =>
        /\ (\E i \in DOMAIN arg : arg[i] \in Alnum) => ret # <<>>
        /\ arg \in Seq(AsciiOther \cup { "U+2019", "U+3001" }) => ret = <<>>

\* C20, amended: every argument with at least one ASCII letter or digit has a
\* non-empty slug, and every argument made only of ASCII whitespace and
\* punctuation has the empty slug; so for a string of ASCII characters the
\* slug is empty exactly when the string contains no letter and no digit.
C20_EmptyIffNoAlnum ==
    op = "slugifyStr" =>
        /\ (\E i \in DOMAIN arg : arg[i] \in Alnum) => ret # <<>>
        /\ arg \in Seq(AsciiOther) => ret = <<>>
        /\ arg \in Seq(Ascii) =>
              (ret = <<>> <=> ~ \E i \in DOMAIN arg : arg[i] \in Alnum)

\* slugifyStr("++") returned ""
C20_Witness == op = "slugifyStr" /\ arg = << "+", "+" >> /\ ret = <<>>


---------------------------------------------------------------------------
(* Properties of SITE.redirects and of the front-matter *)

\* the last segment of a path: the slug of the post it names
Slug(p) == p.segs[Len(p.segs)]

\* the redirect entry e points to the post p: its target ends in the slug
\* of the post
PointsTo(e, p) == Slug(e[2]) = Slug(pathname(p.canonicalURL))

\* C15: SITE.redirects maps legacy paths to canonical paths: whatever post of
\* src the build has read, every redirect entry that points to it has the path
\* of the post's canonicalURL as its target, and the path of the post's
\* canonicalURL is no key of SITE.redirects.
C15_Original ==
    post # <<>> =>
        /\ \A e \in redirects :
               PointsTo(e, post) => e[2] = pathname(post.canonicalURL)
        /\ pathname(post.canonicalURL) \notin Keys

\* C16: every post front-matter in src has a non-empty title and every tag
\* of its tag list is a non-empty string: so it is for the post the build read
\* last, and for every post in src.
C16_NonEmpty ==
    /\ post # <<>> =>
           /\ post.title # ""
           /\ \A i \in 1..Len(post.tags) : Len(post.tags[i]) > 0
    /\ \A p \in Posts :
           /\ p.title # ""
           /\ \A i \in 1..Len(p.tags) : Len(p.tags[i]) > 0

\* the build has read a post with two tags, one of them "Meeting C++"
C16_Witness ==
    /\ post = post_meeting_cpp_2017
    /\ post.tags = << TripReport, MeetingCpp >>

\* C18: following SITE.redirects from any path ends after at most one hop:
\* after a redirect the path is no key, also when a trailing slash or ".html"
\* is ignored, because every target starts with "/posts/" and no key does.
C18_OneHop ==
    /\ hops <= 1
    /\ hops = 1 => redirectTargets(req, TRUE) = {}
    /\ \A e \in redirects :
           StartsWithPosts(e[2]) /\ ~ StartsWithPosts(e[1])

\* a legacy path with a trailing slash was redirected, by a routing layer
\* that ignores the slash, to a target that ends in a slash itself
C18_Witness ==
    /\ hops = 1
    /\ loose
    /\ req = Slash(<< "posts", "exploding-tuples-fold-expressions" >>)


---------------------------------------------------------------------------
(* Properties of the themed image component *)

\* the sources of the rendered images that are displayed in the mode
DisplayedSrcs ==
    { images[i].src : i \in { j \in 1..Len(images) : Displayed(images[j], mode) } }

\* the asset of the mode
SrcOfMode == IF mode = "light" THEN props.lightSrc ELSE props.darkSrc

---------------------------------------------------------------------------
(* Properties of the legacy variants in SITE.redirects *)

\* every key ending in ".html" has a sibling key without that suffix
HtmlKeysHaveSibling ==
    \A e \in redirects : e[1].html => Path(e[1].segs) \in Keys

\* all keys with the same last path segment have the same target
VariantsSameTarget ==
    \A e, f \in redirects : Slug(e[1]) = Slug(f[1]) => e[2] = f[2]

\* C21: the legacy variants of one old URL agree: every key ending in ".html"
\* has a sibling key without that suffix, all keys with the same last path
\* segment (trailing slash and ".html" ignored) have the same target, and so
\* a visitor who was redirected stands where every variant of the path asked
\* for leads.
C21_VariantsAgree ==
    /\ HtmlKeysHaveSibling
    /\ VariantsSameTarget
    /\ hops = 1 =>
           \A e \in redirects : Slug(e[1]) = Slug(asked) => e[2] = req

\* the visitor asked for "/integral_variable.html" and was redirected to
\* "/posts/integral-variable", the target of the dated variant as well
C21_Witness ==
    /\ asked = Html(<< "integral_variable" >>)
    /\ hops = 1
    /\ req = Path(<< "posts", "integral-variable" >>)
    /\ << Path(<< "c++", "2016", "07", "28", "integral_variable" >>), req >>
           \in redirects


---------------------------------------------------------------------------
(* Properties of the props of the two rendered images *)

\* the visibility classes of the two <Image> elements, in the order of the
\* template
VisibilityClasses ==
    << << "block", "dark:hidden" >>, << "hidden", "dark:block" >> >>

\* C22: the two rendered images differ only in src and in the visibility
\* classes: both have the alt of the component, the class "<visibility
\* classes> border-0 <caller class>" in this order, and the width and height
\* of the component, which are set when the caller passed them and absent
\* otherwise; the props hold nothing else.
C22_SameButSrcAndVisibility ==
    images # << >> =>
        /\ Len(images) = 2
        /\ images[1].src = props.lightSrc
        /\ images[2].src = props.darkSrc
        /\ \A i \in 1..2 :
               /\ images[i].alt = props.alt
               /\ images[i].class =
                      VisibilityClasses[i] \o << "border-0" >>
                          \o className(props)
               /\ DOMAIN images[i] \subseteq
                      { "alt", "src", "class", "width", "height" }
               /\ \A k \in { "width", "height" } :
                      /\ k \in DOMAIN images[i] <=> k \in DOMAIN props
                      /\ k \in DOMAIN props => images[i][k] = props[k]

\* the caller passed the width 0, no height and the class "rounded mx-auto";
\* both images have the width 0 and no height, and the page is in dark mode
C22_Witness ==
    /\ mode = "dark"
    /\ "width" \in DOMAIN props /\ props.width = 0
    /\ "height" \notin DOMAIN props
    /\ className(props) = << "rounded", "mx-auto" >>
    /\ images[1].width = 0 /\ images[2].width = 0
    /\ "height" \notin DOMAIN images[1]
    /\ images[1].class =
           << "block", "dark:hidden", "border-0", "rounded", "mx-auto" >>


---------------------------------------------------------------------------
(* slugifyAll and concatenation *)

\* C23: slugifyAll distributes over concatenation: slugifyAll([]) = [], and
\* however the argument of a call is cut into xs ++ ys, the array returned is
\* slugifyAll(xs) ++ slugifyAll(ys); so the slug of an element depends
\* neither on the other elements nor on its position.
C23_Distributes ==
    op = "slugifyAll" =>
        /\ arg = << >> => ret = << >>
        /\ \A k \in 0..Len(arg) :
               ret = slugifyAll(SubSeq(arg, 1, k))
                         \o slugifyAll(SubSeq(arg, k + 1, Len(arg)))
        /\ \A i \in 1..Len(arg) : << ret[i] >> = slugifyAll(<< arg[i] >>)

\* slugifyAll(["C++", "C++"]) returned ["cpp", "cpp"]: the slug of the
\* second element is the slug it has in an array of its own
C23_Witness ==
    /\ op = "slugifyAll"
    /\ arg = << CppTag, CppTag >>
    /\ ret = << Cpp, Cpp >>
    /\ ret = slugifyAll(<< CppTag >>) \o slugifyAll(<< CppTag >>)

====
